---- MODULE Spec2Model ----
(***************************************************************************)
(* ScholarGen: the versioned document store (services/storage), the editor *)
(* handlers of App.tsx that call it, and the diagram slot of               *)
(* MermaidDiagram.tsx.                                                     *)
(*                                                                         *)
(* Modelling assumptions, stated once:                                     *)
(*  - Date.now() is read from the variable `now`, which never decreases;   *)
(*    two calls may read the same millisecond.                             *)
(*  - generateId() returns a value never returned before (a counter).      *)
(*  - JSON.stringify / JSON.parse of a Paper[] is lossless (plain objects  *)
(*    of strings and finite numbers); the persisted record is modelled as  *)
(*    a tagged value so that an absent or unparsable record is a case.     *)
(***************************************************************************)
EXTENDS Integers, Sequences, FiniteSets, TLC

VARIABLES
    localStorage,   \* the record under STORAGE_KEY
    now,            \* the wall clock read by Date.now()
    nextId,         \* the next value generateId() returns
    lastOp,         \* the last store call: operation, arguments, result
    prevStorage,    \* the record as it was when the last store call began
    \* ---- App.tsx state
    view, papers, loadingState, topic, overview, errorMsg,
    currentPaper, currentVersion, isEditing, editContent,
    pending,        \* the generateAcademicPaper call awaited by handleGenerate
    \* ---- one MermaidDiagram slot
    chart, svgContent, error, mermaidLoaded,
    inflight,       \* render invocations awaiting window.mermaid.render
    issued,         \* number of render invocations issued so far
    settled,        \* history: issue number -> what that invocation displayed
    failedSource,   \* history: the chart passed to the invocation that set error
    \* ---- PaperRenderer
    rawContent,     \* the input of the renderer function under study: the
                    \* `content` prop, a table buffer, or a text
    rendered,       \* what the renderer derived from it
    typed,          \* how many pieces have been appended to rawContent
    slots           \* the MermaidDiagram instance mounted for each section

storeVars == <<localStorage, now, nextId, lastOp, prevStorage>>
appVars == <<view, papers, loadingState, topic, overview, errorMsg,
             currentPaper, currentVersion, isEditing, editContent, pending>>
diagramVars == <<chart, svgContent, error, mermaidLoaded, inflight, issued, settled,
                 failedSource>>
renderVars == <<rawContent, rendered, typed, slots>>
vars == <<storeVars, appVars, diagramVars, renderVars>>

----------------------------------------------------------------------------
(* Bounds of the model *)

MaxId == 6          \* generateId() is called at most this many times
MaxAppId == 4       \* generateId() calls when the store is driven by App.tsx
MaxClock == 1       \* the clock advances at most this many times
MaxRenders == 3     \* render invocations issued for the diagram slot

(* Inputs *)
Contents == {"a", "b"}
Topics == {<<" ">>, <<"t">>}
Overviews == {<<>>, <<"o">>}
Charts == {"A", "B", "bad"}
BadCharts == {"bad"}
RenderIds == {"r1", "r2"}

\* null / undefined where an object is expected; where a string is expected
Null == [null |-> TRUE]
NoString == "null"
NoContent == "Error: No content generated."
ErrGenerate == "The system encountered an error while conducting the research. Please try again."
ErrNotLoaded == "Mermaid.js library not loaded."
ErrSyntax == "Diagram syntax error."

----------------------------------------------------------------------------
(* Sequence helpers: the Array methods the store uses *)

\* Array.prototype.findIndex, 1-based; 0 stands for -1
FindIndex(s, id) ==
    IF \E i \in 1..Len(s) : s[i].id = id
    THEN CHOOSE i \in 1..Len(s) : s[i].id = id /\ \A j \in 1..(i-1) : s[j].id # id
    ELSE 0

\* Array.prototype.splice(index, 1)
RemoveAt(s, i) == SubSeq(s, 1, i-1) \o SubSeq(s, i+1, Len(s))

\* Array.prototype.filter(p => p.id !== id)
RECURSIVE FilterOut(_, _)
FilterOut(s, id) ==
    IF s = <<>> THEN <<>>
    ELSE IF s[1].id = id THEN FilterOut(Tail(s), id)
    ELSE <<s[1]>> \o FilterOut(Tail(s), id)

\* String.prototype.trim on a sequence of characters
WhiteSpace == {" ", "\n", "\t", "\r"}
RECURSIVE TrimLeft(_)
TrimLeft(s) == IF s # <<>> /\ s[1] \in WhiteSpace THEN TrimLeft(Tail(s)) ELSE s
RECURSIVE TrimRight(_)
TrimRight(s) ==
    IF s # <<>> /\ s[Len(s)] \in WhiteSpace THEN TrimRight(SubSeq(s, 1, Len(s)-1)) ELSE s
Trim(s) == TrimRight(TrimLeft(s))

----------------------------------------------------------------------------
(* services/storage *)

Absent == [kind |-> "absent", value |-> <<>>]
Stored(ps) == [kind |-> "json", value |-> ps]

\* What the record can hold besides a serialized Paper[]: the empty string,
\* text JSON.parse rejects, and JSON that parses to something that is no array
\* (an object, a number, null).
EmptyText == [kind |-> "empty", value |-> <<>>]
Unparsable == [kind |-> "unparsable", value |-> <<>>]
NotArray == [notArray |-> TRUE]
ParsedOther == [kind |-> "object", value |-> NotArray]

\* getPapers: data ? JSON.parse(data) : [], and [] when JSON.parse throws
getPapers(ls) ==
    IF ls.kind \in {"json", "object"} THEN ls.value ELSE <<>>

\* getPapers() returned an array, so unshift / findIndex / find / filter exist;
\* on any other value the call is a TypeError that no store function catches
returnsArray(ls) == ls.kind # "object"

\* the Paper literal of saveNewPaper
newPaperNoVersion(ts, pid, vid, t, o, content) ==
    [id |-> pid, topic |-> t, overview |-> o, createdAt |-> ts, updatedAt |-> ts,
     versions |-> <<>>]
newPaper(ts, pid, vid, t, o, content) ==
    [id |-> pid, topic |-> t, overview |-> o, createdAt |-> ts, updatedAt |-> ts,
     versions |-> <<[id |-> vid, versionNumber |-> 1,
                     content |-> content, createdAt |-> ts]>>]

\* papers.unshift(p)
unshiftAsPush(ps, p) == Append(ps, p)
unshift(ps, p) == <<p>> \o ps

\* saveNewPaper: [ls |-> the record written, ret |-> the paper returned]
saveNewPaper(ls, ts, pid, vid, t, o, content) ==
    LET p == newPaper(ts, pid, vid, t, o, content)
    IN [ls |-> Stored(unshift(getPapers(ls), p)), ret |-> p]

\* const nextVersionNum = paper.versions.length + 1
nextVersionNumLength(paper) == Len(paper.versions)
nextVersionNum(paper) == Len(paper.versions) + 1

\* paper.versions.push(newVersion); paper.updatedAt = timestamp
pushVersionOverwrite(paper, newVersion, ts) ==
    [paper EXCEPT !.versions = [@ EXCEPT ![Len(@)] = newVersion], !.updatedAt = ts]
pushVersionKeepStamp(paper, newVersion, ts) ==
    [paper EXCEPT !.versions = Append(@, newVersion)]
pushVersion(paper, newVersion, ts) ==
    [paper EXCEPT !.versions = Append(@, newVersion), !.updatedAt = ts]

\* papers.splice(index, 1); papers.unshift(paper)
moveToTopSpliceRest(ps, index, paper) == unshift(SubSeq(ps, 1, index - 1), paper)
moveToTopInPlace(ps, index, paper) == [ps EXCEPT ![index] = paper]
moveToTopAsBottom(ps, index, paper) == Append(RemoveAt(ps, index), paper)
moveToTop(ps, index, paper) == unshift(RemoveAt(ps, index), paper)

\* papers.findIndex(p => p.id === paperId)
findIndexOrLast(ps, paperId) ==
    IF FindIndex(ps, paperId) = 0 THEN Len(ps) ELSE FindIndex(ps, paperId)
findIndex(ps, paperId) == FindIndex(ps, paperId)

\* savePaperVersion: [ls, ret, index]; ret = Null and ls unchanged when not found
savePaperVersionDedup(ls, ts, vid, paperId, content) ==
    LET ps == getPapers(ls)
        index == findIndex(ps, paperId)
    IN IF index = 0 THEN [ls |-> ls, ret |-> Null, index |-> 0]
       ELSE IF ps[index].versions[Len(ps[index].versions)].content = content
       THEN [ls |-> ls, ret |-> ps[index], index |-> index]
       ELSE LET paper == pushVersion(ps[index],
                             [id |-> vid, versionNumber |-> nextVersionNum(ps[index]),
                              content |-> content, createdAt |-> ts], ts)
            IN [ls |-> Stored(moveToTop(ps, index, paper)),
                ret |-> paper, index |-> index]
savePaperVersion(ls, ts, vid, paperId, content) ==
    LET ps == getPapers(ls)
        index == findIndex(ps, paperId)
    IN IF index = 0 THEN [ls |-> ls, ret |-> Null, index |-> 0]
       ELSE LET paper == pushVersion(ps[index],
                             [id |-> vid, versionNumber |-> nextVersionNum(ps[index]),
                              content |-> content, createdAt |-> ts], ts)
            IN [ls |-> Stored(moveToTop(ps, index, paper)),
                ret |-> paper, index |-> index]

\* getPaperById: the paper, or Null for undefined
getPaperById(ls, id) ==
    LET ps == getPapers(ls)
        i == FindIndex(ps, id)
    IN IF i = 0 THEN Null ELSE ps[i]

\* deletePaper: the record written
deletePaperSplice(ls, id) ==
    LET ps == getPapers(ls)
        i == FindIndex(ps, id)
    IN Stored(RemoveAt(ps, IF i = 0 THEN Len(ps) ELSE i))
deletePaper(ls, id) == Stored(FilterOut(getPapers(ls), id))

----------------------------------------------------------------------------
\* the state of everything but the renderer when the page has loaded
InitPage ==
    /\ localStorage = Absent
    /\ now = 0
    /\ nextId = 1
    /\ lastOp = [op |-> "none"]
    /\ prevStorage = Absent
    /\ view = "HOME"
    /\ papers = <<>>
    /\ loadingState = "IDLE"
    /\ topic = <<>>
    /\ overview = <<>>
    /\ errorMsg = ""
    /\ currentPaper = Null
    /\ currentVersion = Null
    /\ isEditing = FALSE
    /\ editContent = ""
    /\ pending = Null
    /\ chart = NoString
    /\ svgContent = ""
    /\ error = NoString
    /\ mermaidLoaded = FALSE
    /\ inflight = {}
    /\ issued = 0
    /\ settled = <<>>
    /\ failedSource = NoString

Init ==
    /\ InitPage
    /\ rawContent = <<>>
    /\ rendered = <<>>
    /\ typed = 0
    /\ slots = <<>>

\* Time passes between two events.
Tick ==
    /\ now < MaxClock
    /\ now' = now + 1
    /\ UNCHANGED <<localStorage, nextId, lastOp, prevStorage, appVars, diagramVars, renderVars>>

----------------------------------------------------------------------------
(* The store driven directly: any caller, any arguments *)

IdSpace == 1..MaxId

Create(t, o, content) ==
    /\ nextId + 1 <= MaxId
    /\ LET r == saveNewPaper(localStorage, now, nextId, nextId + 1, t, o, content)
       IN /\ localStorage' = r.ls
          /\ lastOp' = [op |-> "create", content |-> content, ret |-> r.ret]
    /\ prevStorage' = localStorage
    /\ nextId' = nextId + 2
    /\ UNCHANGED <<now, appVars, diagramVars, renderVars>>

AppendVersion(id, content) ==
    /\ nextId <= MaxId
    /\ LET r == savePaperVersion(localStorage, now, nextId, id, content)
       IN /\ localStorage' = r.ls
          /\ lastOp' = [op |-> "appendVersion", id |-> id, content |-> content,
                        index |-> r.index, ret |-> r.ret]
          \* generateId() is reached only when the paper is found
          /\ nextId' = IF r.index = 0 THEN nextId ELSE nextId + 1
    /\ prevStorage' = localStorage
    /\ UNCHANGED <<now, appVars, diagramVars, renderVars>>

Delete(id) ==
    /\ localStorage' = deletePaper(localStorage, id)
    /\ lastOp' = [op |-> "delete", id |-> id]
    /\ prevStorage' = localStorage
    /\ UNCHANGED <<now, nextId, appVars, diagramVars, renderVars>>

Next ==
    \/ Tick
    \/ \E t \in {<<"t">>}, o \in {<<"o">>}, c \in Contents : Create(t, o, c)
    \/ \E id \in IdSpace, c \in Contents : AppendVersion(id, c)
    \/ \E id \in IdSpace : Delete(id)

Spec == Init /\ [][Next]_vars

----------------------------------------------------------------------------
(* App.tsx: the screen shown and the handlers reachable from it *)

\* the conditional chain of App's return
screen ==
    IF loadingState = "GENERATING" THEN "LOADING"
    ELSE IF loadingState = "ERROR" THEN "ERROR"
    ELSE view

editorShown == screen = "EDITOR" /\ currentPaper # Null /\ currentVersion # Null

\* onChange of the topic and overview inputs
setTopic(t) ==
    /\ screen = "HOME"
    /\ topic' = t
    /\ UNCHANGED <<storeVars, view, papers, loadingState, overview, errorMsg,
                   currentPaper, currentVersion, isEditing, editContent, pending,
                   diagramVars, renderVars>>

setOverview(o) ==
    /\ screen = "HOME"
    /\ overview' = o
    /\ UNCHANGED <<storeVars, view, papers, loadingState, topic, errorMsg,
                   currentPaper, currentVersion, isEditing, editContent, pending,
                   diagramVars, renderVars>>

\* handleGenerate up to its await
handleGenerate ==
    /\ screen = "HOME"
    /\ pending = Null
    /\ IF Trim(topic) = <<>> \/ Trim(overview) = <<>>
       THEN UNCHANGED <<loadingState, errorMsg, pending>>
       ELSE /\ loadingState' = "GENERATING"
            /\ errorMsg' = ""
            /\ pending' = [topic |-> topic, overview |-> overview]
    /\ UNCHANGED <<storeVars, view, papers, topic, overview,
                   currentPaper, currentVersion, isEditing, editContent, diagramVars, renderVars>>

\* generateAcademicPaper: response.text || "Error: No content generated."
generateAcademicPaper(text) == IF text = "" THEN NoContent ELSE text

\* handleGenerate after the await resolved: save, refresh, open in the editor
handleGenerateResolved(text) ==
    /\ pending # Null
    /\ nextId + 1 <= MaxAppId
    /\ LET result == generateAcademicPaper(text)
           r == saveNewPaper(localStorage, now, nextId, nextId + 1,
                             pending.topic, pending.overview, result)
       IN /\ localStorage' = r.ls
          /\ lastOp' = [op |-> "create", content |-> result, ret |-> r.ret]
          /\ papers' = getPapers(r.ls)
          /\ currentPaper' = r.ret
          /\ currentVersion' = r.ret.versions[1]
          /\ editContent' = r.ret.versions[1].content
    /\ prevStorage' = localStorage
    /\ nextId' = nextId + 2
    /\ isEditing' = FALSE
    /\ view' = "EDITOR"
    /\ loadingState' = "IDLE"
    /\ pending' = Null
    /\ UNCHANGED <<now, topic, overview, errorMsg, diagramVars, renderVars>>

\* handleGenerate's catch: the backend call threw or rejected
handleGenerateRejected ==
    /\ pending # Null
    /\ loadingState' = "ERROR"
    /\ errorMsg' = ErrGenerate
    /\ pending' = Null
    /\ UNCHANGED <<storeVars, view, papers, topic, overview,
                   currentPaper, currentVersion, isEditing, editContent, diagramVars, renderVars>>

\* "Return to Dashboard" on the error screen
dismissError ==
    /\ screen = "ERROR"
    /\ loadingState' = "IDLE"
    /\ UNCHANGED <<storeVars, view, papers, topic, overview, errorMsg,
                   currentPaper, currentVersion, isEditing, editContent, pending,
                   diagramVars, renderVars>>

\* the nav bar, "+ New Research" and "Back": setView
setView(v) ==
    /\ loadingState # "GENERATING"
    /\ view' = v
    /\ UNCHANGED <<storeVars, papers, loadingState, topic, overview, errorMsg,
                   currentPaper, currentVersion, isEditing, editContent, pending,
                   diagramVars, renderVars>>

\* loadPaper(p) from a history card: the latest version is selected
loadPaper(i) ==
    /\ screen = "HISTORY"
    /\ i \in 1..Len(papers)
    /\ LET paper == papers[i]
           v == paper.versions[Len(paper.versions)]
       IN /\ currentPaper' = paper
          /\ currentVersion' = v
          /\ editContent' = v.content
    /\ isEditing' = FALSE
    /\ view' = "EDITOR"
    /\ loadingState' = "IDLE"
    /\ UNCHANGED <<storeVars, papers, topic, overview, errorMsg, pending, diagramVars, renderVars>>

\* handleDeletePaper with the confirm dialog answered yes
handleDeletePaper(i) ==
    /\ screen = "HISTORY"
    /\ i \in 1..Len(papers)
    /\ localStorage' = deletePaper(localStorage, papers[i].id)
    /\ lastOp' = [op |-> "delete", id |-> papers[i].id]
    /\ prevStorage' = localStorage
    /\ papers' = getPapers(localStorage')
    /\ UNCHANGED <<now, nextId, view, loadingState, topic, overview, errorMsg,
                   currentPaper, currentVersion, isEditing, editContent, pending,
                   diagramVars, renderVars>>

\* the options of the version selector
versionIndexes == IF currentPaper = Null THEN {} ELSE DOMAIN currentPaper.versions

\* onChange of the version selector
selectVersion(k) ==
    /\ editorShown
    /\ k \in versionIndexes
    /\ currentPaper.versions[k].id # currentVersion.id
    /\ currentVersion' = currentPaper.versions[k]
    /\ editContent' = currentPaper.versions[k].content
    /\ isEditing' = FALSE
    /\ UNCHANGED <<storeVars, view, papers, loadingState, topic, overview, errorMsg,
                   currentPaper, pending, diagramVars, renderVars>>

\* "Edit Paper" and "Cancel"
setIsEditing(b) ==
    /\ editorShown
    /\ isEditing # b
    /\ isEditing' = b
    /\ UNCHANGED <<storeVars, view, papers, loadingState, topic, overview, errorMsg,
                   currentPaper, currentVersion, editContent, pending, diagramVars, renderVars>>

\* onChange of the editor textarea
setEditContent(c) ==
    /\ editorShown
    /\ isEditing
    /\ editContent' = c
    /\ UNCHANGED <<storeVars, view, papers, loadingState, topic, overview, errorMsg,
                   currentPaper, currentVersion, isEditing, pending, diagramVars, renderVars>>

\* the "changes actually made" test of handleSaveVersion
unchanged(content, paper, version) == content = version.content

\* handleSaveVersion ("Save New Version")
handleSaveVersion ==
    /\ editorShown
    /\ isEditing
    /\ IF unchanged(editContent, currentPaper, currentVersion)
       THEN /\ isEditing' = FALSE
            /\ UNCHANGED <<storeVars, papers, currentPaper, currentVersion>>
       ELSE /\ nextId <= MaxAppId
            /\ LET r == savePaperVersion(localStorage, now, nextId,
                                         currentPaper.id, editContent)
               IN /\ localStorage' = r.ls
                  /\ lastOp' = [op |-> "appendVersion", id |-> currentPaper.id,
                                content |-> editContent, index |-> r.index,
                                ret |-> r.ret]
                  /\ nextId' = IF r.index = 0 THEN nextId ELSE nextId + 1
                  /\ IF r.ret # Null
                     THEN /\ papers' = getPapers(r.ls)
                          /\ currentPaper' = r.ret
                          /\ currentVersion' = r.ret.versions[Len(r.ret.versions)]
                          /\ isEditing' = FALSE
                     ELSE UNCHANGED <<papers, currentPaper, currentVersion, isEditing>>
            /\ prevStorage' = localStorage
            /\ UNCHANGED now
    /\ UNCHANGED <<view, loadingState, topic, overview, errorMsg, editContent,
                   pending, diagramVars, renderVars>>

NextApp ==
    \/ Tick
    \/ \E t \in Topics : setTopic(t)
    \/ \E o \in Overviews : setOverview(o)
    \/ handleGenerate
    \/ \E text \in Contents \cup {""} : handleGenerateResolved(text)
    \/ handleGenerateRejected
    \/ dismissError
    \/ \E v \in {"HOME", "HISTORY"} : setView(v)
    \/ \E i \in 1..Len(papers) : loadPaper(i)
    \/ \E i \in 1..Len(papers) : handleDeletePaper(i)
    \/ \E k \in versionIndexes : selectVersion(k)
    \/ \E b \in BOOLEAN : setIsEditing(b)
    \/ \E c \in Contents : setEditContent(c)
    \/ handleSaveVersion

SpecApp == Init /\ [][NextApp]_vars

----------------------------------------------------------------------------
(* MermaidDiagram.tsx: one diagram slot *)

\* what window.mermaid.render(id, chart) resolves to
Svg(id, c) == [id |-> id, chart |-> c]

\* the script that defines window.mermaid finishes loading
loadMermaid ==
    /\ ~mermaidLoaded
    /\ mermaidLoaded' = TRUE
    /\ UNCHANGED <<storeVars, appVars, renderVars, chart, svgContent, error, inflight,
                   issued, settled, failedSource>>

\* The slot gets a new `chart` prop (or mounts): the effect runs renderDiagram
\* up to its await, or to its early return when the library is missing.
renderDiagram(c) ==
    /\ issued < MaxRenders
    /\ c # chart
    /\ chart' = c
    /\ issued' = issued + 1
    /\ IF ~mermaidLoaded
       THEN /\ error' = ErrNotLoaded
            /\ failedSource' = c
            /\ settled' = Append(settled, [ok |-> FALSE, msg |-> ErrNotLoaded])
            /\ UNCHANGED inflight
       ELSE /\ \E id \in RenderIds :
                 inflight' = inflight \cup {[gen |-> issued + 1, id |-> id, chart |-> c]}
            /\ settled' = Append(settled, [ok |-> FALSE, msg |-> "pending"])
            /\ UNCHANGED <<error, failedSource>>
    /\ UNCHANGED <<storeVars, appVars, renderVars, svgContent, mermaidLoaded>>

\* renderDiagram after its await: the engine resolved or threw
renderSettled(inv) ==
    /\ inv \in inflight
    /\ inflight' = inflight \ {inv}
    /\ IF inv.chart \in BadCharts
       THEN /\ error' = ErrSyntax
            /\ failedSource' = inv.chart
            /\ settled' = [settled EXCEPT ![inv.gen] = [ok |-> FALSE, msg |-> ErrSyntax]]
            /\ UNCHANGED svgContent
       ELSE /\ svgContent' = Svg(inv.id, inv.chart)
            /\ error' = NoString
            /\ failedSource' = NoString
            /\ settled' = [settled EXCEPT
                             ![inv.gen] = [ok |-> TRUE, svg |-> Svg(inv.id, inv.chart)]]
    /\ UNCHANGED <<storeVars, appVars, renderVars, chart, mermaidLoaded, issued>>

NextDiagram ==
    \/ loadMermaid
    \/ \E c \in Charts : renderDiagram(c)
    \/ \E inv \in inflight : renderSettled(inv)

SpecDiagram == Init /\ [][NextDiagram]_vars

\* the source text the failure panel prints: {chart}, the current prop
shownSource == chart

\* what the slot shows: the failure panel when error is set, else the svg
displayed ==
    IF error # NoString THEN [ok |-> FALSE, msg |-> error]
    ELSE [ok |-> TRUE, svg |-> svgContent]

----------------------------------------------------------------------------
(* The store's invariants and contracts *)

list == getPapers(localStorage)
before == getPapers(prevStorage)
Has(ps, id) == \E i \in 1..Len(ps) : ps[i].id = id
Doc(ps, id) == CHOOSE p \in {ps[i] : i \in 1..Len(ps)} : p.id = id

\* C1: after any sequence of create, appendVersion and delete, every stored
\* document's versions, in stored order, are numbered exactly 1, 2, ..., n.
C1_VersionNumbersContiguous ==
    \A i \in 1..Len(list) :
        \A k \in 1..Len(list[i].versions) : list[i].versions[k].versionNumber = k
C1_Witness ==
    /\ Len(list) >= 2
    /\ \E i \in 1..Len(list) : Len(list[i].versions) >= 3

\* C2: every document list() or getById() returns has at least one version.
C2_VersionsNonEmpty ==
    /\ \A i \in 1..Len(list) : Len(list[i].versions) >= 1
    /\ \A id \in IdSpace :
          getPaperById(localStorage, id) # Null
              => Len(getPaperById(localStorage, id).versions) >= 1
C2_Witness ==
    /\ lastOp.op = "delete"
    /\ Len(list) >= 1
    /\ Len(before) > Len(list)

\* C3: list() is ordered by descending updatedAt: of two adjacent documents the
\* earlier one's updatedAt is not smaller than the later one's.
C3_ListDescendingUpdatedAt ==
    \A i \in 1..(Len(list) - 1) : list[i].updatedAt >= list[i+1].updatedAt
C3_Witness ==
    /\ lastOp.op = "appendVersion"
    /\ lastOp.index >= 2
    /\ list[1].updatedAt > list[2].updatedAt

\* C4: a successful appendVersion(D.id, content), D at any index, leaves D at
\* index 0 of list() with its previous versions followed by one new version
\* holding the given content.
C4_AppendMovesToFront ==
    (lastOp.op = "appendVersion" /\ Has(before, lastOp.id)) =>
        LET D == Doc(before, lastOp.id)
            n == Len(D.versions)
        IN /\ lastOp.ret # Null
           /\ list[1].id = lastOp.id
           /\ list[1] = lastOp.ret
           /\ Len(list[1].versions) = n + 1
           /\ SubSeq(list[1].versions, 1, n) = D.versions
           /\ list[1].versions[n + 1].content = lastOp.content
C4_Witness ==
    /\ lastOp.op = "appendVersion"
    /\ Has(before, lastOp.id)
    /\ before[1].id # lastOp.id
    /\ Len(Doc(before, lastOp.id).versions) >= 2

\* C5: every stored document has updatedAt >= createdAt, and its updatedAt is
\* the createdAt of its last version.
C5_UpdatedAtIsLastVersion ==
    \A i \in 1..Len(list) :
        /\ list[i].updatedAt >= list[i].createdAt
        /\ Len(list[i].versions) >= 1
        /\ list[i].updatedAt = list[i].versions[Len(list[i].versions)].createdAt
C5_Witness ==
    \E i \in 1..Len(list) :
        /\ list[i].updatedAt > list[i].createdAt
        /\ Len(list[i].versions) >= 2

\* C6: create returns a document with exactly one version, numbered 1, holding
\* the given content, with createdAt, updatedAt and the version's createdAt all
\* equal; list() is then the previous list with that document at index 0.
C6_CreateInsertsAtFront ==
    lastOp.op = "create" =>
        /\ Len(lastOp.ret.versions) = 1
        /\ lastOp.ret.versions[1].versionNumber = 1
        /\ lastOp.ret.versions[1].content = lastOp.content
        /\ lastOp.ret.createdAt = lastOp.ret.updatedAt
        /\ lastOp.ret.versions[1].createdAt = lastOp.ret.createdAt
        /\ list = <<lastOp.ret>> \o before
C6_Witness ==
    /\ lastOp.op = "create"
    /\ Len(before) >= 2

\* C7: appendVersion with an id that matches no stored document returns the
\* not-found value and leaves the stored collection unchanged.
C7_AppendUnknownIsNoOp ==
    (lastOp.op = "appendVersion" /\ ~Has(before, lastOp.id)) =>
        /\ lastOp.ret = Null
        /\ list = before
        /\ localStorage = prevStorage
C7_Witness ==
    /\ lastOp.op = "appendVersion"
    /\ ~Has(before, lastOp.id)
    /\ Len(before) >= 2

\* C8: delete is idempotent and absence is no error: deleting an unknown id
\* leaves list() unchanged, a second delete(id) yields the same store as the
\* first, and getById(id) is absent afterwards.
C8_DeleteIdempotent ==
    /\ lastOp.op = "delete" =>
          /\ ~Has(before, lastOp.id) => list = before
          /\ getPaperById(localStorage, lastOp.id) = Null
    /\ \A id \in IdSpace :
          LET once == deletePaper(localStorage, id)
          IN /\ deletePaper(once, id) = once
             /\ getPaperById(once, id) = Null
             /\ ~Has(list, id) => getPapers(once) = list
C8_Witness ==
    /\ lastOp.op = "delete"
    /\ Has(before, lastOp.id)
    /\ Len(list) >= 2

----------------------------------------------------------------------------
(* The editor's save policy *)

latest(paper) == paper.versions[Len(paper.versions)]

\* C10: the editor's save handler never calls appendVersion with content
\* byte-identical to the content of the document's latest version, whichever
\* version is selected in the editor.
C10_SaveSkipsContentOfLatest ==
    (lastOp.op = "appendVersion" /\ Has(before, lastOp.id)) =>
        lastOp.content # latest(Doc(before, lastOp.id)).content

----------------------------------------------------------------------------
(* Stale-result suppression in the diagram slot *)

\* C9: once every render invocation issued for the slot has completed, the
\* result displayed is the result of the last-issued invocation; an earlier
\* invocation completing late never replaces it.
C9_LastIssuedRenderDisplayed ==
    (issued > 0 /\ inflight = {}) => displayed = settled[issued]

----------------------------------------------------------------------------
(* Content-source failure *)

\* a generation attempt ends with the backend failing or yielding no content
generationFailed == handleGenerateRejected \/ handleGenerateResolved("")

\* C11: when the backend call of a generation attempt fails or yields no
\* content, the attempt ends in the error state and the store is unchanged.
C11_FailedGenerationStoresNothing ==
    [][generationFailed => (loadingState' = "ERROR" /\ localStorage' = localStorage)]_vars

----------------------------------------------------------------------------
(* The store over every content of the persisted record *)

SamplePaper == newPaper(0, 1, 2, <<"t">>, <<"o">>, "a")
Records == {Absent, EmptyText, Unparsable, ParsedOther, Stored(<<>>), Stored(<<SamplePaper>>)}

InitRecord ==
    /\ localStorage \in Records
    /\ now = 0
    /\ nextId = 3
    /\ lastOp = [op |-> "none"]
    /\ prevStorage = localStorage
    /\ view = "HOME"
    /\ papers = <<>>
    /\ loadingState = "IDLE"
    /\ topic = <<>>
    /\ overview = <<>>
    /\ errorMsg = ""
    /\ currentPaper = Null
    /\ currentVersion = Null
    /\ isEditing = FALSE
    /\ editContent = ""
    /\ pending = Null
    /\ chart = NoString
    /\ svgContent = ""
    /\ error = NoString
    /\ mermaidLoaded = FALSE
    /\ inflight = {}
    /\ issued = 0
    /\ settled = <<>>
    /\ failedSource = NoString
    /\ rawContent = <<>>
    /\ rendered = <<>>
    /\ typed = 0
    /\ slots = <<>>

\* a call that ended in an uncaught TypeError: nothing was written
raised(op) ==
    /\ lastOp' = [op |-> op, raised |-> TRUE]
    /\ prevStorage' = localStorage
    /\ UNCHANGED <<localStorage, nextId>>

callGetPapers ==
    /\ lastOp' = [op |-> "list", raised |-> FALSE, ret |-> getPapers(localStorage)]
    /\ prevStorage' = localStorage
    /\ UNCHANGED <<localStorage, nextId, now, appVars, diagramVars, renderVars>>

callGetPaperById(id) ==
    /\ IF returnsArray(localStorage)
       THEN /\ lastOp' = [op |-> "getById", raised |-> FALSE,
                          ret |-> getPaperById(localStorage, id)]
            /\ prevStorage' = localStorage
            /\ UNCHANGED <<localStorage, nextId>>
       ELSE raised("getById")
    /\ UNCHANGED <<now, appVars, diagramVars, renderVars>>

callSaveNewPaper(content) ==
    /\ nextId + 1 <= MaxId
    /\ IF returnsArray(localStorage)
       THEN LET r == saveNewPaper(localStorage, now, nextId, nextId + 1,
                                  <<"t">>, <<"o">>, content)
            IN /\ localStorage' = r.ls
               /\ lastOp' = [op |-> "create", raised |-> FALSE, ret |-> r.ret]
               /\ prevStorage' = localStorage
               /\ nextId' = nextId + 2
       ELSE raised("create")
    /\ UNCHANGED <<now, appVars, diagramVars, renderVars>>

callSavePaperVersion(id, content) ==
    /\ nextId <= MaxId
    /\ IF returnsArray(localStorage)
       THEN LET r == savePaperVersion(localStorage, now, nextId, id, content)
            IN /\ localStorage' = r.ls
               /\ lastOp' = [op |-> "appendVersion", raised |-> FALSE, ret |-> r.ret]
               /\ prevStorage' = localStorage
               /\ nextId' = IF r.index = 0 THEN nextId ELSE nextId + 1
       ELSE raised("appendVersion")
    /\ UNCHANGED <<now, appVars, diagramVars, renderVars>>

callDeletePaper(id) ==
    /\ IF returnsArray(localStorage)
       THEN /\ localStorage' = deletePaper(localStorage, id)
            /\ lastOp' = [op |-> "delete", raised |-> FALSE, ret |-> Null]
            /\ prevStorage' = localStorage
            /\ UNCHANGED nextId
       ELSE raised("delete")
    /\ UNCHANGED <<now, appVars, diagramVars, renderVars>>

NextRecord ==
    \/ Tick
    \/ callGetPapers
    \/ \E id \in IdSpace : callGetPaperById(id)
    \/ \E c \in Contents : callSaveNewPaper(c)
    \/ \E id \in IdSpace, c \in Contents : callSavePaperVersion(id, c)
    \/ \E id \in IdSpace : callDeletePaper(id)

SpecRecord == InitRecord /\ [][NextRecord]_vars

\* the record holds a serialized document collection
validCollection(ls) == ls.kind = "json"

\* what the operation gives on an empty collection
asOnEmpty ==
    CASE lastOp.op = "list" -> lastOp.ret = <<>>
      [] lastOp.op = "getById" -> lastOp.ret = Null
      [] lastOp.op = "create" -> localStorage = Stored(<<lastOp.ret>>)
      [] lastOp.op = "appendVersion" -> lastOp.ret = Null /\ localStorage = prevStorage
      [] lastOp.op = "delete" -> localStorage = Stored(<<>>)

\* C12: whatever the persisted record holds (absent, not parsable, or parsable
\* but no document collection), every store operation completes without
\* raising, and behaves as on an empty collection when the record holds no
\* valid collection.
C12_AnyRecordNeverRaises ==
    lastOp.op # "none" =>
        /\ ~lastOp.raised
        /\ ~validCollection(prevStorage) => asOnEmpty

\* the part of C12 the code keeps: records that are absent, empty or unparsable
C12_UnreadableRecordIsEmpty ==
    (lastOp.op # "none" /\ prevStorage.kind \in {"absent", "empty", "unparsable"}) =>
        /\ ~lastOp.raised
        /\ asOnEmpty

----------------------------------------------------------------------------
(* The failure panel of the diagram slot *)

\* C13: whenever the slot displays a failure, the source text shown with it is
\* the source text that was passed to the render invocation that failed, also
\* when the slot's source has changed or other invocations came in between.
C13_FailureShowsItsOwnSource ==
    error # NoString => shownSource = failedSource

----------------------------------------------------------------------------
(* PaperRenderer: text is a sequence of one-character strings *)

MaxPieces == 5      \* pieces typed after the seed text
MaxEdits == 3       \* content changes of a displayed document

\* the backquote character
Bq == "bq"
Fence == <<Bq, Bq, Bq>>
Opener == Fence \o <<"m", "e", "r", "m", "a", "i", "d">>

\* s has pat at position i (1-based)
HasAt(s, i, pat) ==
    /\ i >= 1
    /\ i + Len(pat) - 1 <= Len(s)
    /\ SubSeq(s, i, i + Len(pat) - 1) = pat

\* first position >= from where pat occurs in s; 0 when there is none
IndexOfFrom(s, pat, from) ==
    IF \E i \in from..Len(s) : HasAt(s, i, pat)
    THEN CHOOSE i \in from..Len(s) :
             HasAt(s, i, pat) /\ \A j \in from..(i-1) : ~HasAt(s, j, pat)
    ELSE 0

\* mermaidRegex.exec(content) with lastIndex = from - 1, for
\* /```mermaid([\s\S]*?)```/g: the leftmost opener that some later ``` closes
\* (if the leftmost opener has no close, no later one has), lazily closed by
\* the first ``` after it. index = 0 stands for null.
mermaidRegexExec(s, from) ==
    LET i == IndexOfFrom(s, Opener, from)
        j == IF i = 0 THEN 0 ELSE IndexOfFrom(s, Fence, i + Len(Opener))
    IN IF i = 0 \/ j = 0
       THEN [index |-> 0, group |-> <<>>, lastIndex |-> from]
       ELSE [index |-> i, group |-> SubSeq(s, i + Len(Opener), j - 1),
             lastIndex |-> j + Len(Fence)]

\* result.push({type: 'text', content: content.substring(a, b)}) when a < b
textSectionAlways(s, a, b) == <<[type |-> "text", content |-> SubSeq(s, a, b)]>>
textSection(s, a, b) ==
    IF a <= b THEN <<[type |-> "text", content |-> SubSeq(s, a, b)]>> ELSE <<>>

\* result.push({type: 'mermaid', content: match[1].trim()})
mermaidSectionUntrimmed(group) == <<[type |-> "mermaid", content |-> group]>>
mermaidSection(group) == <<[type |-> "mermaid", content |-> Trim(group)]>>

\* the while loop of `sections`, resumed at position from
RECURSIVE sectionsFrom(_, _)
sectionsFrom(s, from) ==
    LET match == mermaidRegexExec(s, from)
    IN IF match.index = 0
       THEN textSection(s, from, Len(s))
       ELSE textSection(s, from, match.index - 1)
            \o mermaidSection(match.group)
            \o sectionsFrom(s, match.lastIndex)

\* sections = useMemo(..., [content])
sections(s) == sectionsFrom(s, 1)

\* the spec's example: "A\n```mermaid\nX-->Y\n```\nB"
ExampleDoc ==
    <<"A", "\n">> \o Opener \o <<"\n", "X", "-", "-", ">", "Y", "\n">> \o Fence
    \o <<"\n", "B">>

SegmentSeeds == {<<>>, ExampleDoc}
SegmentPieces == {Fence, <<"m", "e", "r", "m", "a", "i", "d">>, <<"x">>, <<"\n">>, <<" ">>}

InitSegment ==
    /\ InitPage
    /\ rawContent \in SegmentSeeds
    /\ rendered = sections(rawContent)
    /\ typed = 0
    /\ slots = <<>>

\* the content prop grows by one piece and the memo is recomputed
setContent(piece) ==
    /\ typed < MaxPieces
    /\ typed' = typed + 1
    /\ rawContent' = rawContent \o piece
    /\ rendered' = sections(rawContent')
    /\ UNCHANGED <<storeVars, appVars, diagramVars, slots>>

NextSegment == \E piece \in SegmentPieces : setContent(piece)

SpecSegment == InitSegment /\ [][NextSegment]_vars

\* position of the ``` that closes an opener at i; 0 when nothing closes it
closeOf(s, i) == IndexOfFrom(s, Fence, i + Len(Opener))

\* an opener at i that some later ``` closes
opensFence(s, i) == HasAt(s, i, Opener) /\ closeOf(s, i) # 0

\* s contains a complete diagram fence
CompleteFence(s) == \E i \in 1..Len(s) : opensFence(s, i)

\* the matched fences of s, by the position of their opener: scanning left to
\* right, an opener that is closed and lies outside every fence matched so far
fenceStarts(s) ==
    LET f[i \in 0..Len(s)] ==
            IF i = 0 THEN {}
            ELSE IF opensFence(s, i)
                    /\ \A k \in f[i-1] : closeOf(s, k) + Len(Fence) <= i
                 THEN f[i-1] \cup {i}
                 ELSE f[i-1]
    IN f[Len(s)]

\* the claim as written (not what the code does for the empty text): a text
\* without a complete fence, the empty text included, gives exactly one text
\* segment equal to the input
C15_NoFenceOneTextSegment ==
    ~CompleteFence(rawContent) =>
        rendered = <<[type |-> "text", content |-> rawContent]>>

\* C15: for every non-empty input text that contains no complete diagram
\* fence, the segment list is exactly one segment, of kind text, whose content
\* equals the input; for the empty text the segment list is empty.
C15_NoFenceOneTextSegmentUnlessEmpty ==
    ~CompleteFence(rawContent) =>
        IF rawContent = <<>>
        THEN rendered = <<>>
        ELSE rendered = <<[type |-> "text", content |-> rawContent]>>

\* an opener that is never closed: the whole text is one text segment
C15_Witness ==
    /\ \E i \in 1..Len(rawContent) : HasAt(rawContent, i, Opener)
    /\ ~CompleteFence(rawContent)
    /\ rendered = <<[type |-> "text", content |-> rawContent]>>

\* C16: the segment list tiles the input from left to right: every matched
\* fence gives one diagram segment holding the fence interior trimmed, every
\* non-empty span before, between and after the fences gives one text segment
\* holding that span verbatim, empty spans give nothing; the example document
\* gives text "A\n", diagram "X-->Y", text "\nB".
C16_SegmentsTileTheInput ==
    LET s == rawContent
        F == fenceStarts(s)
        n == Len(rendered)
        pos[k \in 1..(n+1)] ==
            IF k = 1 THEN 1
            ELSE IF rendered[k-1].type = "text"
                 THEN pos[k-1] + Len(rendered[k-1].content)
                 ELSE IF pos[k-1] \in F
                      THEN closeOf(s, pos[k-1]) + Len(Fence)
                      ELSE Len(s) + 2
    IN /\ pos[n+1] = Len(s) + 1
       /\ Cardinality({k \in 1..n : rendered[k].type = "mermaid"}) = Cardinality(F)
       /\ \A k \in 1..n :
            IF rendered[k].type = "mermaid"
            THEN /\ pos[k] \in F
                 /\ rendered[k].content =
                        Trim(SubSeq(s, pos[k] + Len(Opener), closeOf(s, pos[k]) - 1))
            ELSE /\ Len(rendered[k].content) > 0
                 /\ pos[k+1] <= Len(s) + 1
                 /\ rendered[k].content = SubSeq(s, pos[k], pos[k+1] - 1)
                 /\ F \cap (pos[k]..(pos[k+1] - 1)) = {}
                 /\ k < n => rendered[k+1].type = "mermaid"
       /\ s = ExampleDoc =>
            rendered = << [type |-> "text", content |-> <<"A", "\n">>],
                          [type |-> "mermaid", content |-> <<"X", "-", "-", ">", "Y">>],
                          [type |-> "text", content |-> <<"\n", "B">>] >>

\* the example document followed by a second, whitespace-padded fence
C16_Witness ==
    /\ Len(rendered) = 4
    /\ SubSeq(rawContent, 1, Len(ExampleDoc)) = ExampleDoc
    /\ rendered[2] = [type |-> "mermaid", content |-> <<"X", "-", "-", ">", "Y">>]
    /\ rendered[3].type = "text"
    /\ rendered[4] = [type |-> "mermaid", content |-> <<"x">>]

----------------------------------------------------------------------------
(* renderTable: a table buffer is a sequence of lines *)

\* text.split(sep) for a one-character separator
RECURSIVE split(_, _)
split(s, sep) ==
    IF \E i \in 1..Len(s) : s[i] = sep
    THEN LET i == CHOOSE i \in 1..Len(s) : s[i] = sep /\ \A j \in 1..(i-1) : s[j] # sep
         IN <<SubSeq(s, 1, i - 1)>> \o split(SubSeq(s, i + 1, Len(s)), sep)
    ELSE <<s>>

\* cells.filter(c => c.trim() !== '').map(c => c.trim())
RECURSIVE filterTrim(_)
filterTrim(cells) ==
    IF cells = <<>> THEN <<>>
    ELSE IF Trim(Head(cells)) # <<>>
         THEN <<Trim(Head(cells))>> \o filterTrim(Tail(cells))
         ELSE filterTrim(Tail(cells))

\* row.split('|').filter(c => c.trim() !== '').map(c => c.trim())
parseCells(row) == filterTrim(split(row, "|"))

\* rows.slice(from) with from counted from 0
slice(rows, from) ==
    IF from >= Len(rows) THEN <<>> ELSE SubSeq(rows, from + 1, Len(rows))

\* bodyRows = rows.slice(2).map(...)
bodyRowsKeepRow1(rows) == [k \in 1..Len(slice(rows, 1)) |-> parseCells(slice(rows, 1)[k])]
bodyRows(rows) == [k \in 1..Len(slice(rows, 2)) |-> parseCells(slice(rows, 2)[k])]

renderTable(rows) ==
    [type |-> "table", headers |-> parseCells(rows[1]), bodyRows |-> bodyRows(rows)]

HeaderAB == <<"|", " ", "a", " ", "|", " ", "b", " ", "|">>
Divider == <<"|", "-", "-", "-", "|", "-", "-", "-", "|">>
Row12 == <<"|", " ", "1", " ", "|", " ", "2", " ", "|">>
OddDivider == <<" ", "|", ":", "-", "|">>
\* a row whose middle cell is empty: |1||2|
RowGap == <<"|", "1", "|", "|", "2", "|">>
TableLines == {HeaderAB, Divider, Row12, OddDivider, RowGap}

\* in SpecTable the input is the tableBuffer of renderTextContent
tableBuffer == rawContent

InitTable ==
    /\ InitPage
    /\ rawContent \in {<<l>> : l \in TableLines}
    /\ rendered = renderTable(rawContent)
    /\ typed = 0
    /\ slots = <<>>

\* tableBuffer.push(line), and the table the buffer renders to
pushLine(line) ==
    /\ typed < MaxPieces
    /\ typed' = typed + 1
    /\ rawContent' = Append(rawContent, line)
    /\ rendered' = renderTable(rawContent')
    /\ UNCHANGED <<storeVars, appVars, diagramVars, slots>>

NextTable == \E line \in TableLines : pushLine(line)

SpecTable == InitTable /\ [][NextTable]_vars

replaceRow1(rows, line) == [rows EXCEPT ![2] = line]

\* C17: the headers are the cells of line 0, line 1 is discarded whatever it
\* holds, there is exactly one body row per line 2..end, in order, and putting
\* any other line in place of line 1 gives the same table; header, divider and
\* one data line give headers a, b and the single body row 1, 2.
C17_Row1Discarded ==
    LET n == Len(tableBuffer)
    IN /\ rendered.headers = parseCells(tableBuffer[1])
       /\ Len(rendered.bodyRows) = (IF n >= 2 THEN n - 2 ELSE 0)
       /\ \A k \in 1..Len(rendered.bodyRows) :
            rendered.bodyRows[k] = parseCells(tableBuffer[k + 2])
       /\ n >= 2 => \A line \in TableLines :
                        renderTable(replaceRow1(tableBuffer, line)) = rendered
       /\ tableBuffer = <<HeaderAB, Divider, Row12>> =>
            /\ rendered.headers = << <<"a">>, <<"b">> >>
            /\ rendered.bodyRows = << << <<"1">>, <<"2">> >> >>

\* a table without divider: its first data line is lost
C17_Witness ==
    /\ tableBuffer = <<HeaderAB, Row12, Row12>>
    /\ rendered.headers = << <<"a">>, <<"b">> >>
    /\ rendered.bodyRows = << << <<"1">>, <<"2">> >> >>

----------------------------------------------------------------------------
(* parseFormatting: the runs of one block's text *)

Star == "*"
\* the characters `.` does not match
LineTerminators == {"\n", "\r"}

NoTerminator(s, a, b) == \A k \in a..b : s[k] \notin LineTerminators

\* \*\*.*?\*\* tried at position i: the position of its last character, 0 when
\* it does not match there (lazy: closed by the first ** after the opening one)
boldEnd(s, i) ==
    IF HasAt(s, i, <<Star, Star>>)
    THEN LET j == IndexOfFrom(s, <<Star, Star>>, i + 2)
         IN IF j # 0 /\ NoTerminator(s, i + 2, j - 1) THEN j + 1 ELSE 0
    ELSE 0

\* \*.*?\* tried at position i
italicEnd(s, i) ==
    IF HasAt(s, i, <<Star>>)
    THEN LET k == IndexOfFrom(s, <<Star>>, i + 1)
         IN IF k # 0 /\ NoTerminator(s, i + 1, k - 1) THEN k ELSE 0
    ELSE 0

\* the alternation at position i: the first alternative that matches
matchEnd(s, i) == IF boldEnd(s, i) # 0 THEN boldEnd(s, i) ELSE italicEnd(s, i)

\* the leftmost match of /(\*\*.*?\*\*|\*.*?\*)/ in s; index = 0 for none
formatRegexExec(s) ==
    IF \E i \in 1..Len(s) : matchEnd(s, i) # 0
    THEN LET i == CHOOSE i \in 1..Len(s) :
                      matchEnd(s, i) # 0 /\ \A j \in 1..(i-1) : matchEnd(s, j) = 0
         IN [index |-> i, end |-> matchEnd(s, i),
             alt |-> IF boldEnd(s, i) # 0 THEN "bold" ELSE "italic"]
    ELSE [index |-> 0, end |-> 0, alt |-> "none"]

\* text.split(/(\*\*.*?\*\*|\*.*?\*)/g): the stretch before each match (empty
\* ones too), the match itself (capture group), and the rest
RECURSIVE formatSplit(_)
formatSplit(s) ==
    LET m == formatRegexExec(s)
    IN IF m.index = 0 THEN <<s>>
       ELSE <<SubSeq(s, 1, m.index - 1), SubSeq(s, m.index, m.end)>>
            \o formatSplit(SubSeq(s, m.end + 1, Len(s)))

startsWith(part, pre) == HasAt(part, 1, pre)
endsWith(part, suf) == HasAt(part, Len(part) - Len(suf) + 1, suf)

\* part.slice(a, -b)
strSlice(part, a, b) ==
    IF a + 1 <= Len(part) - b THEN SubSeq(part, a + 1, Len(part) - b) ELSE <<>>

\* the callback of parts.map
formatPart(part) ==
    IF startsWith(part, <<Star, Star>>) /\ endsWith(part, <<Star, Star>>)
    THEN [tier |-> "bold", text |-> strSlice(part, 2, 2)]
    ELSE IF startsWith(part, <<Star>>) /\ endsWith(part, <<Star>>)
         THEN [tier |-> "italic", text |-> strSlice(part, 1, 1)]
         ELSE [tier |-> "plain", text |-> part]

parseFormatting(text) ==
    [k \in 1..Len(formatSplit(text)) |-> formatPart(formatSplit(text)[k])]

\* the spec's example: "plain **bold** and *italic*"
ExampleLine ==
    <<"p", "l", "a", "i", "n", " ", Star, Star, "b", "o", "l", "d", Star, Star,
      " ", "a", "n", "d", " ", Star, "i", "t", "a", "l", "i", "c", Star>>

FormatSeeds == {<<"x">>, ExampleLine}
FormatPieces == {<<Star>>, <<Star, Star>>, <<"x">>, <<" ">>}

InitFormat ==
    /\ InitPage
    /\ rawContent \in FormatSeeds
    /\ rendered = parseFormatting(rawContent)
    /\ typed = 0
    /\ slots = <<>>

\* the text grows by one piece and is formatted again on the next render
formatText(piece) ==
    /\ typed < MaxPieces
    /\ typed' = typed + 1
    /\ rawContent' = rawContent \o piece
    /\ rendered' = parseFormatting(rawContent')
    /\ UNCHANGED <<storeVars, appVars, diagramVars, slots>>

NextFormat == \E piece \in FormatPieces : formatText(piece)

SpecFormat == InitFormat /\ [][NextFormat]_vars

\* the runs the text is cut into: one bold or italic run per span, markers
\* stripped, and one plain run per non-empty stretch
RECURSIVE cutAtSpans(_)
cutAtSpans(s) ==
    LET m == formatRegexExec(s)
        plain(t) == IF t = <<>> THEN <<>> ELSE <<[tier |-> "plain", text |-> t]>>
    IN IF m.index = 0 THEN plain(s)
       ELSE plain(SubSeq(s, 1, m.index - 1))
            \o <<[tier |-> m.alt,
                  text |-> IF m.alt = "bold" THEN SubSeq(s, m.index + 2, m.end - 2)
                           ELSE SubSeq(s, m.index + 1, m.end - 1)]>>
            \o cutAtSpans(SubSeq(s, m.end + 1, Len(s)))

\* C18: the runs are exactly the text cut at its bold and italic spans, in
\* order: one bold or italic run per span with its markers stripped, one plain
\* run per non-empty stretch between spans, and no other run, no empty plain
\* run in particular; the example line gives exactly four runs.
C18_RunsAreTheCutAtSpans ==
    /\ rendered = cutAtSpans(rawContent)
    /\ rawContent = ExampleLine => Len(rendered) = 4

\* C19: every stretch of the text outside the complete bold and italic spans,
\* unbalanced markers included, is emitted verbatim as a plain run, so no
\* asterisk outside a complete span is removed.
C19_UnbalancedMarkersVerbatim ==
    LET parts == formatSplit(rawContent)
    IN \A k \in 1..Len(parts) :
          (k % 2 = 1 /\ parts[k] # <<>>) =>
              rendered[k] = [tier |-> "plain", text |-> parts[k]]

----------------------------------------------------------------------------
(* renderTextContent: the blocks of one text section *)

Digits == {"0", "1", "2", "3", "4", "5", "6", "7", "8", "9"}

\* trimmed.substring(n)
substring(s, n) == IF n >= Len(s) THEN <<>> ELSE SubSeq(s, n + 1, Len(s))

\* the length of the match of ^\d+ ; 0 when s does not start with a digit
RECURSIVE leadingDigits(_)
leadingDigits(s) ==
    IF s # <<>> /\ Head(s) \in Digits THEN 1 + leadingDigits(Tail(s)) ELSE 0

\* /^\d+\./.test(trimmed)
isOrdered(s) ==
    /\ leadingDigits(s) >= 1
    /\ Len(s) > leadingDigits(s)
    /\ s[leadingDigits(s) + 1] = "."

\* trimmed.replace(/^\d+\.\s*/, '')
stripOrdinalKeepSpace(s) == substring(s, leadingDigits(s) + 1)
stripOrdinal(s) == TrimLeft(substring(s, leadingDigits(s) + 1))

\* the element pushed for a line that is neither blank nor a table line
blockOf(trimmed) ==
    IF startsWith(trimmed, <<"#", "#", "#", " ">>)
    THEN [type |-> "h3", runs |-> parseFormatting(substring(trimmed, 4))]
    ELSE IF startsWith(trimmed, <<"#", "#", " ">>)
    THEN [type |-> "h2", runs |-> parseFormatting(substring(trimmed, 3))]
    ELSE IF startsWith(trimmed, <<"#", " ">>)
    THEN [type |-> "h1", runs |-> parseFormatting(substring(trimmed, 2))]
    ELSE IF startsWith(trimmed, <<"-", " ">>) \/ startsWith(trimmed, <<Star, " ">>)
    THEN [type |-> "li-disc", runs |-> parseFormatting(substring(trimmed, 2))]
    ELSE IF isOrdered(trimmed)
    THEN [type |-> "li-decimal", runs |-> parseFormatting(stripOrdinal(trimmed))]
    ELSE [type |-> "p", runs |-> parseFormatting(trimmed)]

\* one call of the lines.forEach callback on the loop state st
forEachLine(st, line) ==
    IF startsWith(Trim(line), <<"|">>)
    THEN [st EXCEPT !.inTable = TRUE, !.tableBuffer = Append(@, line)]
    ELSE LET flushed ==
                 IF st.inTable
                 THEN [elements |-> Append(st.elements, renderTable(st.tableBuffer)),
                       tableBuffer |-> <<>>, inTable |-> FALSE]
                 ELSE st
         IN IF Trim(line) = <<>> THEN flushed
            ELSE [flushed EXCEPT !.elements = Append(@, blockOf(Trim(line)))]

RECURSIVE forEach(_, _)
forEach(st, lines) ==
    IF lines = <<>> THEN st ELSE forEach(forEachLine(st, Head(lines)), Tail(lines))

\* the flush after the loop: a table the text ends with
flushTableNever(st) == st.elements
flushTable(st) ==
    IF st.inTable /\ Len(st.tableBuffer) > 0
    THEN Append(st.elements, renderTable(st.tableBuffer))
    ELSE st.elements

renderTextContent(text) ==
    flushTable(forEach([elements |-> <<>>, tableBuffer |-> <<>>, inTable |-> FALSE],
                       split(text, "\n")))

RowA == <<"|", " ", "a", " ", "|">>
TextPieces == {RowA, <<"|", "b">>, <<"\n">>, <<"#">>, <<"-">>, <<Star>>,
               <<"1", ".">>, <<"c">>, <<" ">>}

InitText ==
    /\ InitPage
    /\ rawContent = <<>>
    /\ rendered = renderTextContent(rawContent)
    /\ typed = 0
    /\ slots = <<>>

\* the text section grows by one piece and its blocks are derived again
renderText(piece) ==
    /\ typed < MaxPieces
    /\ typed' = typed + 1
    /\ rawContent' = rawContent \o piece
    /\ rendered' = renderTextContent(rawContent')
    /\ UNCHANGED <<storeVars, appVars, diagramVars, slots>>

NextText == \E piece \in TextPieces : renderText(piece)

SpecText == InitText /\ [][NextText]_vars

RECURSIVE Flatten(_)
Flatten(ss) == IF ss = <<>> THEN <<>> ELSE Head(ss) \o Flatten(Tail(ss))

\* all the text an element displays, in display order
elementText(el) ==
    IF el.type = "table"
    THEN Flatten(el.headers) \o Flatten([k \in 1..Len(el.bodyRows) |-> Flatten(el.bodyRows[k])])
    ELSE Flatten([k \in 1..Len(el.runs) |-> el.runs[k].text])

displayedText(els) == Flatten([k \in 1..Len(els) |-> elementText(els[k])])

IsLetter(c) == c \in {"a", "b", "c"}

\* C20: no non-blank line of a text section is silently dropped: the letters of
\* every line are displayed by the emitted blocks, in the order of the text.
C20_NoLineDropped ==
    SelectSeq(displayedText(rendered), IsLetter) = SelectSeq(rawContent, IsLetter)

----------------------------------------------------------------------------
(* PaperRenderer with its diagram slots: one MermaidDiagram per mermaid
   section, keyed by the section's index *)

ChartA == <<"A">>
ChartB == <<"B">>
ChartBad == <<"!">>

\* window.mermaid.render throws or rejects for this source
engineFails(c) == \E k \in 1..Len(c) : c[k] = "!"

Fenced(c) == Opener \o c \o Fence

Documents ==
    { <<"t">>,
      <<"t">> \o Fenced(ChartA),
      Fenced(ChartA) \o <<"t">> \o Fenced(ChartBad),
      Fenced(ChartBad) \o <<"t">> \o Fenced(ChartA),
      Fenced(ChartB) \o Fenced(ChartBad) \o <<"#", " ", "t">> }

EmptySvg == Svg("", <<>>)

\* no MermaidDiagram at this index (a text section)
NoSlot ==
    [mounted |-> FALSE, chart |-> <<>>, svgContent |-> EmptySvg, error |-> NoString,
     issued |-> 0, inflight |-> {}, effectPending |-> FALSE]

\* a MermaidDiagram right after its first render: useState('') / useState(null)
mountedSlot(c) == [NoSlot EXCEPT !.mounted = TRUE, !.chart = c, !.effectPending = TRUE]

\* React commits the new section list: an instance is kept where the index
\* held a MermaidDiagram before, and its effect runs again when chart changed
commit(old, secs) ==
    [k \in 1..Len(secs) |->
        IF secs[k].type # "mermaid" THEN NoSlot
        ELSE IF k <= Len(old) /\ old[k].mounted
             THEN IF old[k].chart = secs[k].content THEN old[k]
                  ELSE [old[k] EXCEPT !.chart = secs[k].content, !.effectPending = TRUE]
             ELSE mountedSlot(secs[k].content)]

\* setError(msg) of the instance at index i
setErrorEverySlot(sl, i, msg) ==
    [k \in 1..Len(sl) |-> IF sl[k].mounted THEN [sl[k] EXCEPT !.error = msg] ELSE sl[k]]
setError(sl, i, msg) == [sl EXCEPT ![i].error = msg]

InitDocument ==
    /\ InitPage
    /\ rawContent = <<>>
    /\ rendered = sections(rawContent)
    /\ typed = 0
    /\ slots = <<>>

\* the content prop changes: sections is recomputed and the tree committed
setContentProp(doc) ==
    /\ typed < MaxEdits
    /\ doc # rawContent
    /\ \A k \in 1..Len(slots) : ~slots[k].effectPending
    /\ typed' = typed + 1
    /\ rawContent' = doc
    /\ rendered' = sections(doc)
    /\ slots' = commit(slots, rendered')
    /\ UNCHANGED <<storeVars, appVars, diagramVars>>

\* the effect of the instance at index i: renderDiagram up to its await, or
\* to its early return when the library is missing
renderDiagramAt(i) ==
    /\ slots[i].effectPending
    /\ IF ~mermaidLoaded
       THEN slots' = setError([slots EXCEPT ![i].effectPending = FALSE], i, ErrNotLoaded)
       ELSE \E id \in RenderIds :
              slots' = [slots EXCEPT
                          ![i].effectPending = FALSE,
                          ![i].issued = @ + 1,
                          ![i].inflight = @ \cup {[gen |-> slots[i].issued + 1, id |-> id,
                                                   chart |-> slots[i].chart]}]
    /\ UNCHANGED <<storeVars, appVars, diagramVars, rawContent, rendered, typed>>

\* renderDiagram of the instance at index i after its await
renderSettledAt(i, inv) ==
    /\ inv \in slots[i].inflight
    /\ IF engineFails(inv.chart)
       THEN slots' = setError([slots EXCEPT ![i].inflight = @ \ {inv}], i, ErrSyntax)
       ELSE slots' = [slots EXCEPT ![i].inflight = @ \ {inv},
                                   ![i].svgContent = Svg(inv.id, inv.chart),
                                   ![i].error = NoString]
    /\ UNCHANGED <<storeVars, appVars, diagramVars, rawContent, rendered, typed>>

NextDocument ==
    \/ loadMermaid
    \/ \E doc \in Documents : setContentProp(doc)
    \/ \E i \in 1..Len(slots) : renderDiagramAt(i)
    \/ \E i \in 1..Len(slots) : \E inv \in slots[i].inflight : renderSettledAt(i, inv)

SpecDocument == InitDocument /\ [][NextDocument]_vars

\* the render of the instance at index i fails in this step: the library is
\* missing, or the engine throws or rejects
renderFailsAt(i) ==
    \/ ~mermaidLoaded /\ renderDiagramAt(i)
    \/ \E inv \in slots[i].inflight : engineFails(inv.chart) /\ renderSettledAt(i, inv)

\* C14: a failing render of one diagram slot changes that slot only: the
\* segment list (and with it the blocks of every text segment) and every other
\* diagram slot are left as they were.
C14_FailureStaysInItsSlot ==
    [][\A i \in 1..Len(slots) :
          renderFailsAt(i) =>
              /\ rawContent' = rawContent
              /\ rendered' = rendered
              /\ Len(slots') = Len(slots)
              /\ \A j \in 1..Len(slots) : j # i => slots'[j] = slots[j]]_vars

\* one slot shows its failure panel next to a slot that shows its diagram
C14_Witness ==
    \E i, j \in 1..Len(slots) :
        /\ slots[i].mounted /\ slots[i].error = ErrSyntax
        /\ slots[j].mounted /\ slots[j].error = NoString
        /\ slots[j].svgContent # EmptySvg
        /\ \E k \in 1..Len(rendered) : rendered[k].type = "text"

----------------------------------------------------------------------------
(* The store: versions are immutable, nothing is deduplicated, and an
   operation touches its target document only *)

\* C21: a version, once appended, keeps its version number, content and
\* creation timestamp through every later create, appendVersion and delete on
\* any document; it disappears only when its whole document is deleted.
C21_VersionsImmutable ==
    \A i \in 1..Len(before) :
        LET D == before[i]
        IN IF Has(list, D.id)
           THEN /\ Len(Doc(list, D.id).versions) >= Len(D.versions)
                /\ SubSeq(Doc(list, D.id).versions, 1, Len(D.versions)) = D.versions
           ELSE lastOp.op = "delete" /\ lastOp.id = D.id
C21_Witness ==
    /\ lastOp.op = "appendVersion"
    /\ Has(before, lastOp.id)
    /\ Len(Doc(before, lastOp.id).versions) >= 2
    /\ Len(list) >= 2
    /\ \E i \in 1..Len(list) : list[i].id # lastOp.id

\* C22: the store does not deduplicate: appendVersion(id, content) on a stored
\* document whose latest version already holds that very content still appends
\* a version with the next version number and moves the document to the front.
C22_NoDeduplication ==
    (/\ lastOp.op = "appendVersion"
     /\ Has(before, lastOp.id)
     /\ latest(Doc(before, lastOp.id)).content = lastOp.content) =>
        LET n == Len(Doc(before, lastOp.id).versions)
        IN /\ list[1].id = lastOp.id
           /\ Len(list[1].versions) = n + 1
           /\ list[1].versions[n + 1].versionNumber = n + 1
           /\ list[1].versions[n + 1].content = lastOp.content
           /\ list[1].versions[n].content = lastOp.content
C22_Witness ==
    /\ lastOp.op = "appendVersion"
    /\ Has(before, lastOp.id)
    /\ latest(Doc(before, lastOp.id)).content = lastOp.content
    /\ before[1].id # lastOp.id

\* the documents of ps other than id, in their order
Others(ps, id) ==
    LET keep(p) == p.id # id
    IN SelectSeq(ps, keep)

\* the document create, a successful appendVersion or delete acted on
targetOf(op) == IF op.op = "create" THEN op.ret.id ELSE op.id

\* C28: create, a successful appendVersion on D and delete of D leave every
\* other stored document identical and the relative order of the other
\* documents unchanged; the persisted record then holds the whole resulting
\* collection, so getById returns the very document create or appendVersion
\* returned.
C28_OnlyTargetTouched ==
    (lastOp.op \in {"create", "delete"}
        \/ (lastOp.op = "appendVersion" /\ Has(before, lastOp.id))) =>
        /\ Others(list, targetOf(lastOp)) = Others(before, targetOf(lastOp))
        /\ localStorage = Stored(list)
        /\ lastOp.op \in {"create", "appendVersion"} =>
              /\ getPaperById(localStorage, lastOp.ret.id) = lastOp.ret
              /\ Len(list) = Len(Others(before, targetOf(lastOp))) + 1
        /\ lastOp.op = "delete" => Len(list) = Len(Others(before, lastOp.id))
\* the middle one of three documents is deleted
C28_Witness ==
    /\ lastOp.op = "delete"
    /\ Len(before) = 3
    /\ before[2].id = lastOp.id
    /\ list = <<before[1], before[3]>>

----------------------------------------------------------------------------
(* The cells of a table row *)

\* the fragments of a row without the empty fragment a leading pipe and a
\* trailing pipe produce, each remaining fragment trimmed
cellsBetweenPipes(row) ==
    LET fr == split(row, "|")
        a == IF Trim(fr[1]) = <<>> THEN 2 ELSE 1
        b == IF Len(fr) >= a /\ Trim(fr[Len(fr)]) = <<>> THEN Len(fr) - 1 ELSE Len(fr)
    IN [k \in 1..(IF b >= a THEN b - a + 1 ELSE 0) |-> Trim(fr[a + k - 1])]

\* C25: the cells of every header and body row are the fragments between its
\* pipes, trimmed, with only the empty leading and trailing fragment dropped;
\* each row keeps its own cell count, so an empty cell in the middle of a row
\* keeps its column position.
C25_CellsKeepTheirColumn ==
    /\ rendered.headers = cellsBetweenPipes(tableBuffer[1])
    /\ \A k \in 1..Len(rendered.bodyRows) :
          rendered.bodyRows[k] = cellsBetweenPipes(tableBuffer[k + 2])

----------------------------------------------------------------------------
(* The blocks of a text section, line by line *)

isTableLine(line) == Trim(line) # <<>> /\ Trim(line)[1] = "|"

\* the last line of the run of table lines that line i is in
runEnd(lines, i) ==
    CHOOSE j \in i..Len(lines) :
        /\ \A k \in i..j : isTableLine(lines[k])
        /\ j = Len(lines) \/ ~isTableLine(lines[j + 1])

\* what the lines give, position by position: one table at the first line of
\* each maximal run of table lines, nothing for a blank line, and the block
\* blockFor gives for any other line
blocksByPosition(text, blockFor(_)) ==
    LET lines == split(text, "\n")
    IN Flatten([i \in 1..Len(lines) |->
          IF isTableLine(lines[i])
          THEN IF i = 1 \/ ~isTableLine(lines[i - 1])
               THEN <<renderTable(SubSeq(lines, i, runEnd(lines, i)))>>
               ELSE <<>>
          ELSE IF Trim(lines[i]) = <<>> THEN <<>>
          ELSE <<blockFor(Trim(lines[i]))>>])

\* C23: every maximal run of consecutive table lines gives exactly one table
\* block, at the run's position among the blocks (the final block when the text
\* ends inside the run); the line that ends the run is classified as usual and
\* is not lost, and no buffered table line stays unflushed.
C23_OneTablePerRun ==
    rendered = blocksByPosition(rawContent, blockOf)

\* a table, then the paragraph of the line that ended its run, then a second
\* table that the text ends in
C23_Witness ==
    /\ Len(rendered) = 3
    /\ rendered[1].type = "table"
    /\ Len(rendered[1].headers) = 1
    /\ rendered[2].type = "p"
    /\ rendered[3].type = "table"

\* the number of leading digits of s
digitsAhead(s) ==
    CHOOSE n \in 0..Len(s) :
        /\ \A k \in 1..n : s[k] \in Digits
        /\ n = Len(s) \/ s[n + 1] \notin Digits

\* s from position from on, without the white space it starts with
afterWhiteSpace(s, from) ==
    LET m == CHOOSE m \in (from - 1)..Len(s) :
                 /\ \A k \in from..m : s[k] \in WhiteSpace
                 /\ m = Len(s) \/ s[m + 1] \notin WhiteSpace
    IN SubSeq(s, m + 1, Len(s))

\* the block of a trimmed, non-blank line by the first rule that matches
classified(t) ==
    LET block(kind, body) == [type |-> kind, runs |-> parseFormatting(body)]
        rest(n) == SubSeq(t, n + 1, Len(t))
    IN CASE HasAt(t, 1, <<"#", "#", "#", " ">>) -> block("h3", rest(4))
         [] HasAt(t, 1, <<"#", "#", " ">>) -> block("h2", rest(3))
         [] HasAt(t, 1, <<"#", " ">>) -> block("h1", rest(2))
         [] HasAt(t, 1, <<"-", " ">>) \/ HasAt(t, 1, <<"*", " ">>) -> block("li-disc", rest(2))
         [] /\ ~HasAt(t, 1, <<"-", " ">>) /\ ~HasAt(t, 1, <<"*", " ">>)
            /\ ~HasAt(t, 1, <<"#", " ">>) /\ ~HasAt(t, 1, <<"#", "#", " ">>)
            /\ ~HasAt(t, 1, <<"#", "#", "#", " ">>)
            /\ digitsAhead(t) >= 1 /\ HasAt(t, digitsAhead(t) + 1, <<".">>)
              -> block("li-decimal", afterWhiteSpace(t, digitsAhead(t) + 2))
         [] OTHER -> block("p", t)

isLineBlock(el) == el.type # "table"

\* C24: each line that is no table line gives at most one block, by the first
\* matching rule on the trimmed line: blank gives none; "### " heading 3; "## "
\* heading 2; "# " heading 1; "- " or "* " a bullet item; digits and a period
\* an ordered item without the number, the period and the white space after
\* it; otherwise a paragraph of the whole trimmed line. The blocks come in the
\* order of their lines.
C24_LineClassification ==
    /\ rendered = blocksByPosition(rawContent, classified)
    /\ LET lines == split(rawContent, "\n")
       IN Len(SelectSeq(rendered, isLineBlock))
            = Cardinality({i \in 1..Len(lines) :
                             ~isTableLine(lines[i]) /\ Trim(lines[i]) # <<>>})

\* an ordered item whose period is followed by two spaces
C24_Witness ==
    /\ rawContent = <<"1", ".", " ", " ", "c">>
    /\ rendered = <<[type |-> "li-decimal",
                     runs |-> <<[tier |-> "plain", text |-> <<"c">>]>>]>>

----------------------------------------------------------------------------
(* Fence lines *)

Blank == {" ", "\t"}

\* nothing but blanks between the start of i's line and i
blankBefore(s, i) ==
    \E b \in 0..(i - 1) :
        /\ b = 0 \/ s[b] = "\n"
        /\ \A k \in (b + 1)..(i - 1) : s[k] \in Blank

\* nothing but blanks from j to the end of j's line
blankAfter(s, j) ==
    \E e \in j..(Len(s) + 1) :
        /\ e = Len(s) + 1 \/ s[e] = "\n"
        /\ \A k \in j..(e - 1) : s[k] \in Blank

\* the opener at i and the ``` that closes it each stand on a line of their own
onOwnLines(s, i) ==
    /\ blankBefore(s, i)
    /\ blankAfter(s, i + Len(Opener))
    /\ blankBefore(s, closeOf(s, i))
    /\ blankAfter(s, closeOf(s, i) + Len(Fence))

isSuffix(t, s) == Len(t) <= Len(s) /\ SubSeq(s, Len(s) - Len(t) + 1, Len(s)) = t

\* C26: a diagram segment comes only from a fence whose opening marker and
\* closing marker each stand on their own line; an opening marker that nothing
\* closes (and whose ``` does not itself close an earlier fence) gives no
\* diagram segment, and the text from the marker on stays verbatim in a text
\* segment.
C26_FenceLinesOnly ==
    LET s == rawContent
        diagrams == {k \in 1..Len(rendered) : rendered[k].type = "mermaid"}
        fences == {i \in 1..Len(s) : opensFence(s, i) /\ onOwnLines(s, i)}
    IN /\ Cardinality(diagrams) <= Cardinality(fences)
       /\ \A i \in 1..Len(s) :
            /\ HasAt(s, i, Opener) /\ closeOf(s, i) = 0
            /\ \A k \in fenceStarts(s) : closeOf(s, k) + Len(Fence) <= i
            => /\ rendered # <<>>
               /\ rendered[Len(rendered)].type = "text"
               /\ isSuffix(SubSeq(s, i, Len(s)), rendered[Len(rendered)].content)

----------------------------------------------------------------------------
(* Render-target identities *)

\* the invocations awaiting window.mermaid.render, each with its slot
invocationsInFlight ==
    UNION {{[slot |-> i, inv |-> v] : v \in slots[i].inflight} : i \in 1..Len(slots)}

\* C27: the invocations in flight at the same time, over all diagram slots,
\* carry pairwise different render-target identities; and an invocation calls
\* the engine at most once: a failing render issues no further engine call and
\* schedules none.
C27_FreshIdentityNoRetry ==
    /\ [](\A a, b \in invocationsInFlight : a # b => a.inv.id # b.inv.id)
    /\ [][\A i \in 1..Len(slots) :
             renderFailsAt(i) =>
                 /\ Len(slots') = Len(slots)
                 /\ slots'[i].effectPending => slots[i].effectPending
                 /\ \A j \in 1..Len(slots) :
                      /\ slots'[j].issued = slots[j].issued
                      /\ slots'[j].inflight \subseteq slots[j].inflight]_vars

====
